---- MODULE Spec2Model ----
(***************************************************************************)
(* A model of image_scraaperr.py: the AdsWorldScraper class (page fetch,   *)
(* image extraction, download, binary search for the last page, the crawl  *)
(* loop) and main().                                                       *)
(*                                                                         *)
(* Python strings are sequences of one-character strings, so that          *)
(* startswith, lower, substring search, basename and the f-string that     *)
(* synthesizes a file name are computed and not assumed.                   *)
(***************************************************************************)
EXTENDS Integers, Sequences, FiniteSets, TLC

\* ------------------------------------------------------------------ bounds

\* The upper estimate of the binary search (max_page = 1400 in the code),
\* scaled down; also the largest page number the user can type.
MaxPage == 4

\* The pages of the site that may answer with a document; the pages above
\* answer with an error.
SitePages == 2

\* The failures (of a request for an image, of the disk) that may happen in
\* one execution. The pages that fail are the feed's and are not counted.
MaxFaults == 1

\* The img tags of a document given to extract_image_urls by itself are at
\* most MaxTags.
MaxTags == 2

\* ----------------------------------------------------------------- strings

None == "None"

Pages == 1..MaxPage

StartsWith(s, prefix) ==
    /\ Len(s) >= Len(prefix)
    /\ SubSeq(s, 1, Len(prefix)) = prefix

\* pat in s
Contains(s, pat) ==
    \E i \in 1..(Len(s) - Len(pat) + 1) : SubSeq(s, i, i + Len(pat) - 1) = pat

\* str.lower(), over the letters the modelled pages use
LowerChar(c) ==
    CASE c = "L" -> "l"
      [] c = "I" -> "i"
      [] c = "A" -> "a"
      [] c = "P" -> "p"
      [] OTHER -> c

Lower(s) == [i \in 1..Len(s) |-> LowerChar(s[i])]

\* The first index at or after from of a character of s that is in chars;
\* Len(s) + 1 when there is none.
RECURSIVE FirstIndex(_, _, _)
FirstIndex(s, chars, from) ==
    IF from > Len(s) THEN Len(s) + 1
    ELSE IF s[from] \in chars THEN from
    ELSE FirstIndex(s, chars, from + 1)

\* The last index up to upto of character c in s; 0 when absent.
RECURSIVE LastIndex(_, _, _)
LastIndex(s, c, upto) ==
    IF upto < 1 THEN 0
    ELSE IF s[upto] = c THEN upto
    ELSE LastIndex(s, c, upto - 1)

\* The elements of a sequence
Elements(l) == {l[i] : i \in 1..Len(l)}

\* str(k) for k >= 0
DigitChar(d) ==
    CASE d = 0 -> "0" [] d = 1 -> "1" [] d = 2 -> "2" [] d = 3 -> "3"
      [] d = 4 -> "4" [] d = 5 -> "5" [] d = 6 -> "6" [] d = 7 -> "7"
      [] d = 8 -> "8" [] d = 9 -> "9"

RECURSIVE Str(_)
Str(k) == IF k < 10 THEN <<DigitChar(k)>> ELSE Str(k \div 10) \o <<DigitChar(k % 10)>>

\* ----------------------------------------------------------- __init__

\* base_url="https://www.adsoftheworld.com"
base_url ==
    <<"h","t","t","p","s",":","/","/","w","w","w",".","a","d","s","o","f","t",
      "h","e","w","o","r","l","d",".","c","o","m">>

\* --------------------------------------------------- extract_image_urls

\* urllib.parse: the scheme ("https" in "https://h/p") ends at the first ":"
\* when that comes before any "/", "?" or "#"; colon is the index of the
\* first ":". 0 when the url has no scheme.
SchemeEndAt(url, colon) ==
    IF colon > 1 /\ colon <= Len(url) /\ colon < FirstIndex(url, {"/", "?", "#"}, 1)
    THEN colon
    ELSE 0

SchemeEnd(url) == SchemeEndAt(url, FirstIndex(url, {":"}, 1))

\* urllib.parse.urljoin(base, src) for a base without a path: a src with a
\* scheme of its own is returned as it is, a relative path is put under "/".
urljoin(base, src) ==
    IF SchemeEnd(src) > 0 THEN src ELSE base \o <<"/">> \o src

skip_patterns ==
    { <<"i","c","o","n">>, <<"l","o","g","o">>, <<"a","v","a","t","a","r">>,
      <<"p","l","a","c","e","h","o","l","d","e","r">> }

\* src = img.get('src') or img.get('data-src') or img.get('data-lazy-src');
\* a missing attribute and an empty one are both <<>>
SelectSrc(img) ==
    IF img.src # <<>> THEN img.src
    ELSE IF img.data_src # <<>> THEN img.data_src
    ELSE img.data_lazy_src

\* Absolute with the test for "/" before the test for "//"
Absolute_SlashFirst(src) ==
    IF StartsWith(src, <<"/">>) THEN base_url \o src
    ELSE IF StartsWith(src, <<"/","/">>) THEN <<"h","t","t","p","s",":">> \o src
    ELSE IF ~StartsWith(src, <<"h","t","t","p">>) THEN urljoin(base_url, src)
    ELSE src

\* Convert relative URLs to absolute URLs
Absolute(src) ==
    IF StartsWith(src, <<"/","/">>) THEN <<"h","t","t","p","s",":">> \o src
    ELSE IF StartsWith(src, <<"/">>) THEN base_url \o src
    ELSE IF ~StartsWith(src, <<"h","t","t","p">>) THEN urljoin(base_url, src)
    ELSE src

\* Skipped without ".lower()"
Skipped_CaseSensitive(url) == \E p \in skip_patterns : Contains(url, p)

\* "any(skip_pattern in src.lower() for skip_pattern in [...])"
Skipped(url) == \E p \in skip_patterns : Contains(Lower(url), p)

\* "if any(skip_pattern in src.lower() ...): continue", else image_urls.append(src)
Appended(url) == IF Skipped(url) THEN <<>> ELSE <<url>>

\* What one img tag adds to image_urls: nothing when it has no src
FromTag(src) == IF src = <<>> THEN <<>> ELSE Appended(Absolute(src))

\* The list image_urls after the loop over img_tags
RECURSIVE ImageUrlList(_)
ImageUrlList(img_tags) ==
    IF img_tags = <<>> THEN <<>>
    ELSE FromTag(SelectSrc(Head(img_tags))) \o ImageUrlList(Tail(img_tags))

\* html_content is None or a document, given by its img tags (soup.find_all('img'))
NoneHtml == [none |-> TRUE, img_tags |-> <<>>]

Document(img_tags) == [none |-> FALSE, img_tags |-> img_tags]

\* The lists that hold each element of S once, in any order
Orderings(S) ==
    {l \in [1..Cardinality(S) -> S] : \A i, j \in 1..Cardinality(S) : i # j => l[i] # l[j]}

\* list_set with "return image_urls" for "return list(set(image_urls))"
list_set_KeepsList(l) == {l}

\* list(set(l)): the lists it can give; the iteration order of a set is not fixed
list_set(l) == Orderings(Elements(l))

\* The lists extract_image_urls(html_content) can return
Returns(html_content) ==
    IF html_content.none THEN {<<>>}
    ELSE list_set(ImageUrlList(html_content.img_tags))

\* extract_image_urls(html_content) as the set of the urls in the list it
\* returns; the loop of scrape_page takes them in the order of the list
extract_image_urls(html_content) ==
    IF html_content.none THEN {}
    ELSE Elements(ImageUrlList(html_content.img_tags))

\* ------------------------------------------------------- download_image

\* What follows the network location in "netloc/path?query#fragment"
AfterNetloc(rest) == SubSeq(rest, FirstIndex(rest, {"/", "?", "#"}, 1), Len(rest))

\* The path of "path?query#fragment"
BeforeQuery(hier) == SubSeq(hier, 1, FirstIndex(hier, {"?", "#"}, 1) - 1)

\* The path of what follows the scheme of a url
PathAfterScheme(s) ==
    IF StartsWith(s, <<"/","/">>)
    THEN BeforeQuery(AfterNetloc(SubSeq(s, 3, Len(s))))
    ELSE BeforeQuery(s)

\* urllib.parse.urlparse(image_url).path
UrlPath(url) == PathAfterScheme(SubSeq(url, SchemeEnd(url) + 1, Len(url)))

\* os.path.basename(path): what follows the last "/"
basename(path) == SubSeq(path, LastIndex(path, "/", Len(path)) + 1, Len(path))

\* "if '.' not in filename or len(filename) < 5" (line 82)
Synthesizes(filename) == ~Contains(filename, <<".">>) \/ Len(filename) < 5

\* f"image_{count + 1}.jpg"
SynthesizedName(count) ==
    <<"i","m","a","g","e","_">> \o Str(count + 1) \o <<".","j","p","g">>

\* The file name download_image derives (lines 78-83) from the basename of
\* the url's path when downloaded_count is count
NameFor(filename, count) ==
    IF Synthesizes(filename) THEN SynthesizedName(count) ELSE filename

\* ------------------------------------------------------------ the site

img(src, data_src, data_lazy_src) ==
    [src |-> src, data_src |-> data_src, data_lazy_src |-> data_lazy_src]

\* What the feed can answer for a page: "error" (the request fails, or the
\* status is not 2xx), or one of three documents.
Responses == {"error", "noimg", "pics", "mixed"}

\* response.text, a document that is not empty, by its img tags:
\*   noimg  no img tag
\*   pics   src="//c.io/a/pic.jpg", src="https://c.io/a/pic.jpg", src="/b/pic.jpg"
\*   mixed  data-src="t/ad.png?v=2", data-lazy-src="/g/", src="/Logo.png"
ResponseText(r) ==
    CASE r = "noimg" -> Document(<<>>)
      [] r = "pics" -> Document(
           << img(<<"/","/","c",".","i","o","/","a","/","p","i","c",".","j","p","g">>, <<>>, <<>>),
              img(<<"h","t","t","p","s",":","/","/","c",".","i","o","/","a","/","p","i","c",".","j","p","g">>, <<>>, <<>>),
              img(<<"/","b","/","p","i","c",".","j","p","g">>, <<>>, <<>>) >>)
      [] r = "mixed" -> Document(
           << img(<<>>, <<"t","/","a","d",".","p","n","g","?","v","=","2">>, <<>>),
              img(<<>>, <<>>, <<"/","g","/">>),
              img(<<"/","L","o","g","o",".","p","n","g">>, <<>>, <<>>) >>)

\* The values an attribute of an img tag takes when extract_image_urls is
\* run by itself: none, "//c.io/a.jpg", "https://c.io/a.jpg",
\* "//logo.io/a.jpg", "/b/Icon.png", "t/ad.png"
RawSources ==
    { <<>>,
      <<"/","/","c",".","i","o","/","a",".","j","p","g">>,
      <<"h","t","t","p","s",":","/","/","c",".","i","o","/","a",".","j","p","g">>,
      <<"/","/","l","o","g","o",".","i","o","/","a",".","j","p","g">>,
      <<"/","b","/","I","c","o","n",".","p","n","g">>,
      <<"t","/","a","d",".","p","n","g">> }

\* The img tags: each value as src, and two tags that have no src but a
\* data-src or a data-lazy-src
Tags ==
    {img(s, <<>>, <<>>) : s \in RawSources}
    \cup {img(<<>>, <<"/","/","c",".","i","o","/","a",".","j","p","g">>, <<>>),
          img(<<>>, <<>>, <<"/","b","/","I","c","o","n",".","p","n","g">>)}

\* The arguments of extract_image_urls: None, and the documents of up to
\* MaxTags img tags
Documents ==
    {NoneHtml} \cup {Document(t) : t \in UNION {[1..n -> Tags] : n \in 0..MaxTags}}

\* response.text of each response, None for "error"
Html == [r \in Responses |-> IF r = "error" THEN NoneHtml ELSE ResponseText(r)]

\* extract_image_urls of each response's text
Extracted == [r \in Responses |-> extract_image_urls(Html[r])]

\* Every url a page of the site can give
SiteUrls == UNION {Extracted[r] : r \in Responses}

\* os.path.basename(urllib.parse.urlparse(image_url).path) of each of them
PathBasename == [u \in SiteUrls |-> basename(UrlPath(u))]

\* The file name download_image uses for image_url when downloaded_count is count
Filename(image_url, count) == NameFor(PathBasename[image_url], count)

\* The counter value that line 83 puts in the file name of image_url when
\* downloaded_count is count, as a list; empty when the name is not synthesized
SynthesisOf(image_url, count) ==
    IF Synthesizes(PathBasename[image_url]) THEN <<count + 1>> ELSE <<>>

\* ------------------------------------------------------------------- state

VARIABLES
    feed,              \* the site: page number -> response; it does not change
    files,             \* download_dir: <<page, file name>> -> [from, complete]
    dirs,              \* the page_{n} directories that exist
    downloaded_count,  \* self.downloaded_count
    failed_count,      \* self.failed_count
    phase,             \* where main() is
    min_page,          \* find_actual_page_count: min_page
    max_page,          \* find_actual_page_count: max_page
    probes,            \* the pages find_actual_page_count has fetched, in order
    max_pages,         \* main: max_pages
    start_page,        \* scrape_all_pages: start_page
    end_page,          \* scrape_all_pages: end_page
    page_num,          \* scrape_all_pages: page_num
    in_page,           \* scrape_page(page_num) is in its loop over image_urls
    image_urls,        \* scrape_page: the urls the loop has still to take
    attempted,         \* the pages scrape_page has fetched, in order
    last,              \* the last call made and how it ended
    clean,             \* no fetch and no disk operation of this session failed
    faults,            \* the failures of image requests and of the disk so far
    summary,           \* main: the "Final Results" printed
    previous,          \* the session run before this one on the same download_dir
    synthesized,       \* the counter values download_image has put in a file name, in order
    calls,             \* the calls of download_image made so far
    content,           \* extract_image_urls called by itself: its html_content
    returned           \* extract_image_urls called by itself: the list it returned

vars == <<feed, files, dirs, downloaded_count, failed_count, phase, min_page,
          max_page, probes, max_pages, start_page, end_page, page_num, in_page,
          image_urls, attempted, last, clean, faults, summary, previous,
          synthesized, calls, content, returned>>

NoFiles == <<>>

NoSummary == [printed |-> FALSE, downloaded |-> 0, failed |-> 0]

NoSession == [ran |-> FALSE, start_page |-> 0, end_page |-> 0, downloaded |-> 0]

\* A call: what was called, with what, in what environment, and how it ended
Call(op) == [op |-> op, page |-> 0, url |-> <<>>, env |-> None, filename |-> <<>>,
             outcome |-> None, ret |-> None, requested |-> FALSE]

\* get_page_content(page_num): response.text, or None on a RequestException
get_page_content(p) == Html[feed[p]]

\* self.extract_image_urls(self.get_page_content(page_num))
PageImageUrls(p) == Extracted[feed[p]]

\* A fresh process: AdsWorldScraper.__init__ and the head of main()
Construct ==
    /\ downloaded_count = 0
    /\ failed_count = 0
    /\ phase = "Idle"
    /\ min_page = 0
    /\ max_page = 0
    /\ probes = <<>>
    /\ max_pages = 0
    /\ start_page = 0
    /\ end_page = 0
    /\ page_num = 0
    /\ in_page = FALSE
    /\ image_urls = {}
    /\ attempted = <<>>
    /\ last = Call("none")
    /\ clean = TRUE
    /\ summary = NoSummary
    /\ synthesized = <<>>
    /\ calls = 0

Init ==
    /\ feed \in [Pages -> Responses]
    /\ \A p \in Pages : p > SitePages => feed[p] = "error"
    /\ faults = 0
    /\ files = NoFiles
    /\ dirs = {}
    /\ previous = NoSession
    /\ content = NoneHtml
    /\ returned = <<>>
    /\ Construct

\* ------------------------------------------------- find_actual_page_count

\* html_content and self.extract_image_urls(html_content)
HasContent(p) == ~get_page_content(p).none /\ PageImageUrls(p) # {}

\* MidPage without the "+ 1": the lower middle
MidPage_LowerMiddle(lo, hi) == (lo + hi) \div 2

\* mid_page = (min_page + max_page + 1) // 2
MidPage(lo, hi) == (lo + hi + 1) \div 2

\* SearchStep with "min_page = mid_page + 1" for "min_page = mid_page"
SearchStep_FloorPastMid(lo, hi) ==
    IF HasContent(MidPage(lo, hi))
    THEN <<MidPage(lo, hi) + 1, hi>>
    ELSE <<lo, MidPage(lo, hi) - 1>>

\* SearchStep with "max_page = mid_page - 2" for "max_page = mid_page - 1"
SearchStep_CeilingTooLow(lo, hi) ==
    IF HasContent(MidPage(lo, hi))
    THEN <<MidPage(lo, hi), hi>>
    ELSE <<lo, MidPage(lo, hi) - 2>>

\* One iteration of the while loop: the new <<min_page, max_page>>
SearchStep(lo, hi) ==
    LET mid_page == MidPage(lo, hi)
    IN IF HasContent(mid_page) THEN <<mid_page, hi>> ELSE <<lo, mid_page - 1>>

\* main: the scraper is built and find_actual_page_count is entered
main_start ==
    /\ phase = "Idle"
    /\ phase' = "LocatingBound"
    /\ min_page' = 1
    /\ max_page' = MaxPage
    /\ last' = Call("find_actual_page_count")
    /\ UNCHANGED <<feed, files, dirs, downloaded_count, failed_count, probes,
                   max_pages, start_page, end_page, page_num, in_page,
                   image_urls, attempted, clean, faults, summary, previous,
                   synthesized, calls, content, returned>>

\* find_actual_page_count: one iteration of "while min_page < max_page"
find_probe ==
    /\ phase = "LocatingBound"
    /\ min_page < max_page
    /\ probes' = Append(probes, MidPage(min_page, max_page))
    /\ min_page' = SearchStep(min_page, max_page)[1]
    /\ max_page' = SearchStep(min_page, max_page)[2]
    /\ last' = [Call("get_page_content") EXCEPT !.page = MidPage(min_page, max_page),
                                                !.requested = TRUE]
    /\ UNCHANGED <<feed, files, dirs, downloaded_count, failed_count, phase,
                   max_pages, start_page, end_page, page_num, in_page,
                   image_urls, attempted, clean, faults, summary, previous,
                   synthesized, calls, content, returned>>

\* find_actual_page_count: the loop ends, "return min_page"; main prints it
find_return ==
    /\ phase = "LocatingBound"
    /\ ~(min_page < max_page)
    /\ max_pages' = min_page
    /\ phase' = "Prompt"
    /\ last' = Call("find_return")
    /\ UNCHANGED <<feed, files, dirs, downloaded_count, failed_count, min_page,
                   max_page, probes, start_page, end_page, page_num, in_page,
                   image_urls, attempted, clean, faults, summary, previous,
                   synthesized, calls, content, returned>>

\* --------------------------------------------------------------- main

\* scrape_all_pages(start_page, end_page) is entered
EnterCrawl(s, e) ==
    /\ phase' = "Crawling"
    /\ start_page' = s
    /\ end_page' = e
    /\ page_num' = s
    /\ last' = Call("scrape_all_pages")

\* main returns without scraping
Return(why) ==
    /\ phase' = "Cancelled"
    /\ last' = Call(why)
    /\ UNCHANGED <<start_page, end_page, page_num>>

\* main: the answer to "Do you want to scrape pages 1 to {max_pages}? (y/n/custom)".
\* A second session is given the page range of the first.
main_input ==
    /\ phase = "Prompt"
    /\ \/ /\ ~previous.ran
          /\ EnterCrawl(1, max_pages)                           \* 'y'
       \/ /\ ~previous.ran
          /\ \E s \in 0..MaxPage, e \in 0..MaxPage :             \* 'custom'
               IF s < 1 \/ e < s THEN Return("Invalid page range") ELSE EnterCrawl(s, e)
       \/ /\ ~previous.ran
          /\ Return("Scraping cancelled")                       \* anything else
       \/ /\ previous.ran
          /\ EnterCrawl(previous.start_page, previous.end_page) \* 'y' or 'custom'
    /\ UNCHANGED <<feed, files, dirs, downloaded_count, failed_count, min_page,
                   max_page, probes, max_pages, in_page, image_urls, attempted,
                   clean, faults, summary, previous,
                   synthesized, calls, content, returned>>

\* main: the "Final Results" lines, printed after scrape_all_pages returned or
\* was left by a KeyboardInterrupt
main_summary ==
    /\ phase \in {"Completed", "Interrupted"}
    /\ ~summary.printed
    /\ summary' = [printed |-> TRUE, downloaded |-> downloaded_count,
                   failed |-> failed_count]
    /\ last' = Call("Final Results")
    /\ UNCHANGED <<feed, files, dirs, downloaded_count, failed_count, phase,
                   min_page, max_page, probes, max_pages, start_page, end_page,
                   page_num, in_page, image_urls, attempted, clean, faults, previous,
                   synthesized, calls, content, returned>>

\* ------------------------------------------------------- download_image

\* What can go wrong while one call of download_image runs: nothing ("ok"),
\* page_dir.mkdir fails, session.get or raise_for_status raises (connection,
\* timeout, status not 2xx: each a requests.RequestException), the
\* content-type is not image/*, open(file_path, 'wb') fails, a write fails
\* after some chunks.
DownloadEnvs == {"ok", "mkdir_error", "request_error", "non_image",
                 "open_error", "write_error"}

\* Ctrl+C while the chunks are written
InterruptEnvs == {"interrupt_write"}

\* Caught with a bare "except:", which catches KeyboardInterrupt too
Caught_BareExcept(exc) == TRUE

\* Caught with "except requests.RequestException", as get_page_content has it
Caught_RequestsOnly(exc) == exc = "RequestException"

\* "except Exception as e" (line 115): every exception but KeyboardInterrupt,
\* which derives from BaseException
Caught(exc) == exc # "KeyboardInterrupt"

\* The exception handler of download_image, entered with the effects r so far
Raise(exc, r) ==
    IF Caught(exc)
    THEN [r EXCEPT !.ret = "False", !.outcome = exc, !.failed_count = @ + 1]
    ELSE [r EXCEPT !.ret = "raised", !.outcome = exc]

\* Saved with "self.downloaded_count += 1" inside the loop over the chunks,
\* for a body of two chunks
Saved_CountsChunks(r, path, image_url) ==
    [r EXCEPT !.ret = "True", !.outcome = "downloaded",
              !.files = path :> [from |-> image_url, complete |-> TRUE] @@ @,
              !.downloaded_count = @ + 2]

\* The file written in full (lines 107-113)
Saved(r, path, image_url) ==
    [r EXCEPT !.ret = "True", !.outcome = "downloaded",
              !.files = path :> [from |-> image_url, complete |-> TRUE] @@ @,
              !.downloaded_count = @ + 1]

\* NonImage without its "return False": the warning is logged and the body saved
NonImage_WarnsOnly(r, path, image_url) == Saved(r, path, image_url)

\* The content-type is not image/* (lines 102-104), with the effects r so far
NonImage(r, path, image_url) == [r EXCEPT !.ret = "False", !.outcome = "non_image"]

\* The file opened and left with only some of its chunks
Partial(r, path, image_url) ==
    [r EXCEPT !.files = path :> [from |-> image_url, complete |-> FALSE] @@ @]

\* The download (lines 97-113), with the effects g so far
Fetch(g, path, image_url, env) ==
    CASE env = "request_error" -> Raise("RequestException", g)
      [] env = "non_image" -> NonImage(g, path, image_url)
      [] env = "open_error" -> Raise("OSError", g)
      [] env = "write_error" -> Raise("OSError", Partial(g, path, image_url))
      [] env = "interrupt_write" -> Raise("KeyboardInterrupt", Partial(g, path, image_url))
      [] OTHER -> Saved(g, path, image_url)

\* FetchAndSave without the check of lines 92-94
FetchAndSave_NoExistsCheck(r, path, image_url, env) ==
    Fetch([r EXCEPT !.requested = TRUE], path, image_url, env)

\* FetchAndSave with the check made on download_dir / filename, where no
\* file is ever written, for page_dir / filename
FetchAndSave_ChecksDownloadDir(r, path, image_url, env) ==
    IF <<0, path[2]>> \in DOMAIN r.files
    THEN [r EXCEPT !.ret = "True", !.outcome = "skipped"]
    ELSE Fetch([r EXCEPT !.requested = TRUE], path, image_url, env)

\* "if file_path.exists(): return True" (lines 92-94), else the download,
\* with the effects r so far
FetchAndSave(r, path, image_url, env) ==
    IF path \in DOMAIN r.files
    THEN IF env \in InterruptEnvs
         THEN Raise("KeyboardInterrupt", r)
         ELSE [r EXCEPT !.ret = "True", !.outcome = "skipped"]
    ELSE Fetch([r EXCEPT !.requested = TRUE], path, image_url, env)

\* download_image from "page_dir.mkdir(exist_ok=True)" on (line 87), with
\* the effects r so far
MakeDirAndSave(r, page, image_url, env) ==
    IF env = "mkdir_error" /\ page \notin r.dirs
    THEN Raise("OSError", r)
    ELSE FetchAndSave([r EXCEPT !.dirs = @ \cup {page}], <<page, r.filename>>,
                      image_url, env)

\* The state download_image starts from, its file name chosen
Entered(filename) ==
    [ret |-> None, outcome |-> None, filename |-> filename, requested |-> FALSE,
     files |-> files, dirs |-> dirs, downloaded_count |-> downloaded_count,
     failed_count |-> failed_count]

\* download_image(image_url, page) in the environment env: what it returns
\* ("True", "False", or "raised" when an exception leaves it) and the files,
\* directories and counters it leaves
DownloadResult(image_url, page, env) ==
    MakeDirAndSave(Entered(Filename(image_url, downloaded_count)), page, image_url, env)

\* The record of a call of download_image that ended as r
DownloadCall(image_url, page, env, r) ==
    [op |-> "download_image", page |-> page, url |-> image_url, env |-> env,
     filename |-> r.filename, outcome |-> r.outcome, ret |-> r.ret,
     requested |-> r.requested]

\* ---------------------------------------------- scrape_page, scrape_all_pages

\* PageFailed with the failure ending the loop of scrape_all_pages
PageFailed_EndsCrawl ==
    /\ phase' = "Completed"
    /\ clean' = FALSE
    /\ UNCHANGED <<page_num, in_page, image_urls, failed_count>>

\* PageFailed with the failed page counted in failed_count
PageFailed_CountsFailure ==
    /\ page_num' = page_num + 1
    /\ clean' = FALSE
    /\ failed_count' = failed_count + 1
    /\ UNCHANGED <<in_page, image_urls, phase>>

\* scrape_page: "if not html_content: return 0"; scrape_all_pages logs the
\* page as completed and its for loop goes on
PageFailed ==
    /\ page_num' = page_num + 1
    /\ clean' = FALSE
    /\ UNCHANGED <<in_page, image_urls, phase, failed_count>>

\* scrape_page(page_num) up to its loop: the page is fetched; on None it
\* returns 0 and the for loop of scrape_all_pages goes on
scrape_page_fetch ==
    /\ phase = "Crawling"
    /\ ~in_page
    /\ page_num <= end_page
    /\ attempted' = Append(attempted, page_num)
    /\ last' = [Call("get_page_content") EXCEPT !.page = page_num, !.requested = TRUE]
    /\ IF get_page_content(page_num).none
       THEN PageFailed
       ELSE /\ in_page' = TRUE
            /\ image_urls' = PageImageUrls(page_num)
            /\ UNCHANGED <<page_num, clean, phase, failed_count>>
    /\ UNCHANGED <<feed, files, dirs, downloaded_count,
                   min_page, max_page, probes, max_pages, start_page, end_page,
                   faults, summary, previous,
                   synthesized, calls, content, returned>>

\* download_image has ended as r. An exception that leaves it leaves
\* scrape_page too, and "except Exception" of scrape_all_pages (line 230)
\* goes on with the next page; else the loop of scrape_page goes on.
Downloaded(r, image_url, env) ==
    /\ files' = r.files
    /\ dirs' = r.dirs
    /\ downloaded_count' = r.downloaded_count
    /\ failed_count' = r.failed_count
    /\ last' = DownloadCall(image_url, page_num, env, r)
    /\ calls' = calls + 1
    /\ synthesized' = synthesized \o SynthesisOf(image_url, downloaded_count)
    /\ clean' = (clean /\ r.outcome \in {"downloaded", "skipped"})
    /\ IF r.ret = "raised"
       THEN /\ page_num' = page_num + 1
            /\ in_page' = FALSE
            /\ UNCHANGED image_urls
       ELSE /\ image_urls' = image_urls \ {image_url}
            /\ UNCHANGED <<page_num, in_page>>

\* scrape_page: one iteration of "for image_url in image_urls"
download_image ==
    /\ phase = "Crawling"
    /\ in_page
    /\ \E image_url \in image_urls, env \in DownloadEnvs :
         /\ env = "mkdir_error" => page_num \notin dirs
         /\ env # "ok" => faults < MaxFaults
         /\ env # "ok" => <<page_num, Filename(image_url, downloaded_count)>> \notin DOMAIN files
         /\ faults' = IF env = "ok" THEN faults ELSE faults + 1
         /\ \E r \in {DownloadResult(image_url, page_num, env)} :
              Downloaded(r, image_url, env)
    /\ UNCHANGED <<feed, phase, min_page, max_page, probes, max_pages,
                   start_page, end_page, attempted, summary, previous,
                   content, returned>>

\* scrape_page: the loop is over, "return downloaded"; the for loop goes on
scrape_page_return ==
    /\ phase = "Crawling"
    /\ in_page
    /\ image_urls = {}
    /\ in_page' = FALSE
    /\ page_num' = page_num + 1
    /\ last' = [Call("scrape_page_return") EXCEPT !.page = page_num]
    /\ UNCHANGED <<feed, files, dirs, downloaded_count, failed_count, phase,
                   min_page, max_page, probes, max_pages, start_page, end_page,
                   image_urls, attempted, clean, faults, summary, previous,
                   synthesized, calls, content, returned>>

\* scrape_all_pages: range(start_page, end_page + 1) is exhausted
scrape_all_pages_return ==
    /\ phase = "Crawling"
    /\ ~in_page
    /\ page_num > end_page
    /\ phase' = "Completed"
    /\ last' = Call("scrape_all_pages_return")
    /\ UNCHANGED <<feed, files, dirs, downloaded_count, failed_count, min_page,
                   max_page, probes, max_pages, start_page, end_page, page_num,
                   in_page, image_urls, attempted, clean, faults, summary, previous,
                   synthesized, calls, content, returned>>

\* Ctrl+C came inside download_image, which has ended as r: the exception
\* leaves it and ends the crawl, unless download_image caught it
InterruptedIn(r, image_url, env) ==
    /\ files' = r.files
    /\ dirs' = r.dirs
    /\ downloaded_count' = r.downloaded_count
    /\ failed_count' = r.failed_count
    /\ last' = [DownloadCall(image_url, page_num, env, r) EXCEPT !.op = "KeyboardInterrupt"]
    /\ calls' = calls + 1
    /\ synthesized' = synthesized \o SynthesisOf(image_url, downloaded_count)
    /\ IF r.ret = "raised"
       THEN /\ phase' = "Interrupted"
            /\ UNCHANGED image_urls
       ELSE /\ image_urls' = image_urls \ {image_url}
            /\ UNCHANGED phase

\* Ctrl+C. Outside scrape_all_pages nothing catches it and the process dies.
\* Inside, "except KeyboardInterrupt: break" (line 227) or main's handler
\* (line 273) ends the crawl. When it comes inside download_image it has to
\* pass that function's "except Exception" first.
KeyboardInterrupt ==
    \/ /\ phase \in {"LocatingBound", "Prompt"}
       /\ phase' = "Killed"
       /\ last' = Call("KeyboardInterrupt")
       /\ UNCHANGED <<files, dirs, downloaded_count, failed_count, image_urls,
                      synthesized, calls>>
    \/ /\ phase = "Crawling"
       /\ phase' = "Interrupted"
       /\ last' = Call("KeyboardInterrupt")
       /\ UNCHANGED <<files, dirs, downloaded_count, failed_count, image_urls,
                      synthesized, calls>>
    \/ /\ phase = "Crawling"
       /\ in_page
       /\ \E image_url \in image_urls, env \in InterruptEnvs :
            \E r \in {DownloadResult(image_url, page_num, env)} :
              InterruptedIn(r, image_url, env)
    /\ UNCHANGED <<feed, min_page, max_page, probes, max_pages, start_page,
                   end_page, page_num, in_page, attempted, clean, faults,
                   summary, previous, content, returned>>

\* The program is started again, on the download_dir that a session which
\* met no failure and ran to its end has left
NewSession ==
    /\ phase = "Completed"
    /\ clean
    /\ summary.printed
    /\ ~previous.ran
    /\ previous' = [ran |-> TRUE, start_page |-> start_page, end_page |-> end_page,
                    downloaded |-> downloaded_count]
    /\ downloaded_count' = 0
    /\ failed_count' = 0
    /\ phase' = "Idle"
    /\ min_page' = 0
    /\ max_page' = 0
    /\ probes' = <<>>
    /\ max_pages' = 0
    /\ start_page' = 0
    /\ end_page' = 0
    /\ page_num' = 0
    /\ in_page' = FALSE
    /\ image_urls' = {}
    /\ attempted' = <<>>
    /\ last' = Call("none")
    /\ clean' = TRUE
    /\ summary' = NoSummary
    /\ synthesized' = <<>>
    /\ calls' = 0
    /\ UNCHANGED <<feed, files, dirs, faults, content, returned>>

\* ------------------------------------------------------- specifications

\* The site is any feed over the pages up to the estimate
InitLocate ==
    /\ feed \in [Pages -> Responses]
    /\ files = NoFiles
    /\ dirs = {}
    /\ faults = 0
    /\ previous = NoSession
    /\ content = NoneHtml
    /\ returned = <<>>
    /\ Construct

\* find_actual_page_count alone
LocateNext ==
    \/ main_start
    \/ find_probe
    \/ find_return

SpecLocate == InitLocate /\ [][LocateNext]_vars

\* Every probe returns (timeout=10), so the loop goes on while it can
FairSpecLocate == SpecLocate /\ WF_vars(LocateNext)

\* extract_image_urls(content) is called and returns a list
extract ==
    /\ last.op = "none"
    /\ \E l \in Returns(content) : returned' = l
    /\ last' = Call("extract_image_urls")
    /\ UNCHANGED <<feed, files, dirs, downloaded_count, failed_count, phase,
                   min_page, max_page, probes, max_pages, start_page, end_page,
                   page_num, in_page, image_urls, attempted, clean, faults,
                   summary, previous, synthesized, calls, content>>

\* The argument is None or any document of up to MaxTags img tags
InitExtract ==
    /\ feed = [p \in Pages |-> "error"]
    /\ files = NoFiles
    /\ dirs = {}
    /\ faults = 0
    /\ previous = NoSession
    /\ content \in Documents
    /\ returned = <<>>
    /\ Construct

\* extract_image_urls alone
SpecExtract == InitExtract /\ [][extract]_vars

\* What the single worker does by itself
Step ==
    \/ main_start
    \/ find_probe
    \/ find_return
    \/ scrape_page_fetch
    \/ download_image
    \/ scrape_page_return
    \/ scrape_all_pages_return
    \/ main_summary

Next ==
    \/ main_start
    \/ find_probe
    \/ find_return
    \/ main_input
    \/ scrape_page_fetch
    \/ download_image
    \/ scrape_page_return
    \/ scrape_all_pages_return
    \/ main_summary
    \/ KeyboardInterrupt
    \/ NewSession

Spec == Init /\ [][Next]_vars

\* Every call of the worker returns (each request has timeout=30), so the
\* worker goes on as long as it has something to do.
FairSpec == Spec /\ WF_vars(Step)

\* Only this of the worker: once scrape_all_pages has returned or was left
\* by Ctrl+C, main goes on to print the "Final Results"
FairSummarySpec == Spec /\ WF_vars(main_summary)

\* ------------------------------------------------------------- claims

\* Page p of the feed has content: the fetch succeeds and the extraction
\* of its document is not empty
FeedHasContent(p) == feed[p] # "error" /\ Extracted[feed[p]] # {}

\* b is the true bound of a monotonic feed
TrueBound(b) == \A p \in Pages : FeedHasContent(p) <=> p <= b

\* C1: when the pages up to a bound b (1 <= b <= the upper estimate) have
\* content and the pages above it have none, find_actual_page_count
\* returns b.
C1_LocatorReturnsTrueBound ==
    \A b \in Pages : (TrueBound(b) /\ phase = "Prompt") => max_pages = b

\* C1's case: the search has returned on a monotonic feed whose bound lies
\* strictly inside the interval, after more than one probe
C1_Witness ==
    /\ phase = "Prompt"
    /\ Len(probes) >= 2
    /\ \E b \in Pages : b > 1 /\ b < MaxPage /\ TrueBound(b)

\* C2: when the first page has no content the locator reports a failure and
\* no page number, the crawl is not entered and no page is scraped.
C2_NoBoundNoCrawl ==
    ~FeedHasContent(1) =>
        /\ phase = "Prompt" => max_pages \notin Pages
        /\ phase \notin {"Crawling", "Completed", "Interrupted"}
        /\ attempted = <<>>

\* C3: a call of download_image that ends in failure adds one to
\* failed_count and returns False, whatever made it fail; one that fetches
\* and writes the file adds one to downloaded_count.
C3_EveryFailureCounted ==
    [][download_image =>
         /\ last'.env # "ok" =>
              /\ last'.ret = "False"
              /\ failed_count' = failed_count + 1
              /\ downloaded_count' = downloaded_count
         /\ last'.outcome = "downloaded" =>
              /\ downloaded_count' = downloaded_count + 1
              /\ failed_count' = failed_count]_vars

\* C4: a second session over the same pages, on the download_dir that a
\* first full crawl has left and against the same feed, every fetch
\* succeeding in both, ends with downloaded_count = 0 and failed_count = 0.
C4_SecondRunDownloadsNothing ==
    (previous.ran /\ phase = "Completed" /\ clean) =>
        downloaded_count = 0 /\ failed_count = 0

\* C5: when the destination path exists as download_image is called, it
\* returns True as skipped, makes no request, and leaves the files and both
\* counters as they are.
C5_SkipExistingIsPure ==
    [][(download_image
        /\ <<page_num, Filename(last'.url, downloaded_count)>> \in DOMAIN files) =>
          /\ last'.ret = "True"
          /\ last'.outcome = "skipped"
          /\ ~last'.requested
          /\ files' = files
          /\ downloaded_count' = downloaded_count
          /\ failed_count' = failed_count]_vars

\* C5's case: a call has just found its destination present
C5_Witness ==
    /\ last.op = "download_image"
    /\ last.outcome = "skipped"
    /\ <<last.page, last.filename>> \in DOMAIN files

\* C6: when the content-type of the response does not begin with image/,
\* download_image returns False and the files are the same after the call.
C6_NonImageWritesNoFile ==
    [][(download_image /\ last'.env = "non_image") =>
          /\ last'.ret = "False"
          /\ DOMAIN files' = DOMAIN files
          /\ files' = files]_vars

\* C6's case: a call has just met a response that is no image
C6_Witness ==
    /\ last.op = "download_image"
    /\ last.env = "non_image"
    /\ last.requested
    /\ last.ret = "False"

\* The number of distinct image urls extracted from the pages lo..hi
RECURSIVE UrlsOnPages(_, _)
UrlsOnPages(lo, hi) ==
    IF lo > hi THEN 0
    ELSE Cardinality(Extracted[feed[lo]]) + UrlsOnPages(lo + 1, hi)

\* C7: after a full crawl from an empty download_dir in which every fetch
\* succeeds with an image, downloaded_count is the number of distinct urls
\* extracted from the crawled pages, and failed_count is 0.
C7_CountsDistinctUrls ==
    (~previous.ran /\ phase = "Completed" /\ clean) =>
        /\ downloaded_count = UrlsOnPages(start_page, end_page)
        /\ failed_count = 0

\* C8: without an interrupt the crawl fetches every page of
\* start_page..end_page once, in ascending order, each only when the
\* downloads of the page before are over, and it reaches Completed,
\* whatever fails on the way.
C8_FailuresNeverAbort ==
    /\ [](phase \in {"Crawling", "Completed"} =>
            attempted = [i \in 1..Len(attempted) |-> start_page + i - 1])
    /\ [](phase = "Completed" => Len(attempted) = end_page - start_page + 1)
    /\ [][(phase = "Crawling" /\ attempted' # attempted) => image_urls = {}]_vars
    /\ (phase = "Crawling" ~> phase \in {"Completed", "Interrupted"})

\* C8's case: a crawl has completed over a failed page, a page without
\* images and a failed download
C8_Witness ==
    /\ phase = "Completed"
    /\ failed_count > 0
    /\ \E i \in 1..Len(attempted) : feed[attempted[i]] = "error"
    /\ \E i \in 1..Len(attempted) : feed[attempted[i]] = "noimg"

\* C9: an interrupt during the crawl ends it, leaves both counters and
\* every file that exists as they are; nothing is fetched or downloaded
\* afterwards, and the summary is printed with the counters.
C9_CleanCancellation ==
    /\ [][(phase = "Crawling" /\ last'.op = "KeyboardInterrupt") =>
            /\ phase' = "Interrupted"
            /\ downloaded_count' = downloaded_count
            /\ failed_count' = failed_count
            /\ \A path \in DOMAIN files :
                 path \in DOMAIN files' /\ files'[path] = files[path]]_vars
    /\ [][phase = "Interrupted" =>
            /\ phase' = "Interrupted"
            /\ UNCHANGED <<files, dirs, downloaded_count, failed_count,
                           attempted, image_urls, page_num>>]_vars
    /\ (phase = "Interrupted" ~>
            /\ summary.printed
            /\ summary.downloaded = downloaded_count
            /\ summary.failed = failed_count)

\* C9's case: the crawl was interrupted inside a download, after files were
\* saved, and the summary has been printed
C9_Witness ==
    /\ phase = "Interrupted"
    /\ summary.printed
    /\ downloaded_count > 0
    /\ \E path \in DOMAIN files : ~files[path].complete

\* C10: download_image returns True or False whatever fails in it, and the
\* loop of scrape_page goes on with the other urls of the page.
C10_DownloadAlwaysReturns ==
    [][download_image =>
          /\ last'.ret \in {"True", "False"}
          /\ image_urls' = image_urls \ {last'.url}
          /\ page_num' = page_num
          /\ in_page'
          /\ phase' = "Crawling"]_vars

\* C10's case: a disk error was met in a call that returned False, and the
\* page has another url to take
C10_Witness ==
    /\ last.op = "download_image"
    /\ last.env \in {"mkdir_error", "open_error", "write_error"}
    /\ last.ret = "False"
    /\ in_page
    /\ image_urls # {}

\* C11: only download_image changes downloaded_count and failed_count.
\* Within a process, a step that changes one of them is a call of
\* download_image; the probes of find_actual_page_count, the fetch of a
\* page (failed or not), its extraction and the loop of scrape_all_pages
\* leave both as they are.
C11_OnlyDownloadChangesCounters ==
    [][(phase' # "Idle"
        /\ (downloaded_count' # downloaded_count \/ failed_count' # failed_count)) =>
          /\ phase = "Crawling"
          /\ in_page
          /\ last'.op = "download_image"
          /\ calls' = calls + 1]_vars

\* C11's case: with both counters above 0, a page fetch has just failed
C11_Witness ==
    /\ phase = "Crawling"
    /\ last.op = "get_page_content"
    /\ get_page_content(last.page).none
    /\ downloaded_count > 0
    /\ failed_count > 0

\* C12: within a session, the counter value that a synthesized file name
\* takes is greater than the value of every synthesis before it, whether
\* the downloads in between were saved, failed or skipped.
C12_SynthesisCounterIncreases ==
    \A i \in 1..Len(synthesized), j \in 1..Len(synthesized) :
        i < j => synthesized[i] < synthesized[j]

\* A url that has one of the four substrings in its lowercase form
NamesSkipPattern(url) ==
    \/ Contains(Lower(url), <<"i","c","o","n">>)
    \/ Contains(Lower(url), <<"l","o","g","o">>)
    \/ Contains(Lower(url), <<"a","v","a","t","a","r">>)
    \/ Contains(Lower(url), <<"p","l","a","c","e","h","o","l","d","e","r">>)

\* The img tags of the document that have a source
TagsWithSource == {i \in 1..Len(content.img_tags) : SelectSrc(content.img_tags[i]) # <<>>}

\* The normalized url of the i-th img tag
Normalized(i) == Absolute(SelectSrc(content.img_tags[i]))

\* C13: no url that extract_image_urls returns has icon, logo, avatar or
\* placeholder in its lowercase form, and an img tag whose normalized url
\* has one, in any case and anywhere in it, adds nothing to the result.
C13_SkipPatternsDropped ==
    last.op = "extract_image_urls" =>
        /\ \A k \in 1..Len(returned) : ~NamesSkipPattern(returned[k])
        /\ \A i \in TagsWithSource :
             NamesSkipPattern(Normalized(i)) => Normalized(i) \notin Elements(returned)

\* C13's case: of two img tags, the one with a pattern in upper case was
\* dropped and the other was returned
C13_Witness ==
    /\ last.op = "extract_image_urls"
    /\ Len(returned) = 1
    /\ \E i \in TagsWithSource :
         /\ NamesSkipPattern(Normalized(i))
         /\ Lower(Normalized(i)) # Normalized(i)

\* The img tags of the document whose source begins with "//"
ProtocolRelative ==
    {i \in TagsWithSource : StartsWith(SelectSrc(content.img_tags[i]), <<"/","/">>)}

\* "https:" put before the source of the i-th img tag
HttpsBefore(i) == <<"h","t","t","p","s",":">> \o SelectSrc(content.img_tags[i])

\* C14: a source that begins with "//" is normalized to "https:" followed
\* by the source as it is, whatever base_url is; that url is what the
\* extraction returns for the tag, unless the skip patterns drop it.
C14_ProtocolRelativeGetsHttps ==
    last.op = "extract_image_urls" =>
        \A i \in ProtocolRelative :
            /\ Normalized(i) = HttpsBefore(i)
            /\ HttpsBefore(i) \in Elements(returned) \/ NamesSkipPattern(HttpsBefore(i))
            /\ base_url \o SelectSrc(content.img_tags[i]) \notin Elements(returned)

\* C14's case: a source "//host/..." was taken from a tag and returned
C14_Witness ==
    /\ last.op = "extract_image_urls"
    /\ \E i \in ProtocolRelative : HttpsBefore(i) \in Elements(returned)

\* C15: the list that extract_image_urls returns has no url twice, so img
\* tags that share one url give one element, and for None, an empty body or
\* a document without img tags it returns the empty list.
C15_ReturnsEachUrlOnce ==
    last.op = "extract_image_urls" =>
        /\ \A j, k \in 1..Len(returned) : j # k => returned[j] # returned[k]
        /\ (\A i \in TagsWithSource, n \in TagsWithSource :
                Normalized(i) = Normalized(n) /\ ~NamesSkipPattern(Normalized(i)))
             => Len(returned) <= 1
        /\ (content.none \/ content.img_tags = <<>>) => returned = <<>>

\* C15's case: two img tags with one url have given a list of one element
C15_Witness ==
    /\ last.op = "extract_image_urls"
    /\ Len(content.img_tags) >= 2
    /\ TagsWithSource = 1..Len(content.img_tags)
    /\ \A i \in TagsWithSource : Normalized(i) = Normalized(1)
    /\ returned = <<Normalized(1)>>

\* C16: on every feed, while find_actual_page_count runs and when it has
\* returned, 1 <= min_page <= max_page <= MaxPage, and min_page is 1 or a
\* page that was probed and had content; when the feed has content exactly
\* on the pages up to b, max_page is never below b.
C16_LocatorLoopInvariant ==
    phase \in {"LocatingBound", "Prompt"} =>
        /\ 1 <= min_page
        /\ min_page <= max_page
        /\ max_page <= MaxPage
        /\ min_page = 1 \/ (min_page \in Elements(probes) /\ FeedHasContent(min_page))
        /\ \A b \in Pages : TrueBound(b) => b <= max_page

\* C16's case: on a feed that is not monotonic, probes have moved both ends
C16_Witness ==
    /\ phase = "LocatingBound"
    /\ min_page > 1
    /\ max_page < MaxPage
    /\ \E p \in Pages : p < min_page /\ ~FeedHasContent(p)

\* C17: on every feed each probe makes max_page - min_page smaller, and
\* find_actual_page_count ends with min_page = max_page and returns it.
C17_LocatorTerminates ==
    /\ [][find_probe => /\ max_page' - min_page' < max_page - min_page
                        /\ max_page' - min_page' >= 0]_vars
    /\ (phase = "LocatingBound" ~>
            (phase = "Prompt" /\ min_page = max_page /\ max_pages = min_page))

\* C17's case: the search has returned after two probes or more on a feed
\* where every fetch fails
C17_Witness ==
    /\ phase = "Prompt"
    /\ Len(probes) >= 2
    /\ \A p \in Pages : feed[p] = "error"
    /\ min_page = max_page

\* C18: every file under download_dir is a completely written image; a
\* download that fails or is interrupted while the chunks are written
\* leaves no file at its path.
C18_NoPartialFiles ==
    \A path \in DOMAIN files : files[path].complete

\* C19: no step removes a file or changes one that exists: download_image
\* opens for writing only a path that did not exist when it was called,
\* also when two urls of a page have the same file name.
C19_NoOverwrite ==
    [][\A path \in DOMAIN files :
          path \in DOMAIN files' /\ files'[path] = files[path]]_vars

\* C19's case: a url was taken whose file name is that of a file saved from
\* another url, and the file is as it was
C19_Witness ==
    /\ last.op = "download_image"
    /\ <<last.page, last.filename>> \in DOMAIN files
    /\ files[<<last.page, last.filename>>].from # last.url
    /\ files[<<last.page, last.filename>>].complete

\* The files under download_dir that were written in full
CompleteFiles == {path \in DOMAIN files : files[path].complete}

\* C20: both counters are never negative and never fall within a process;
\* a call of download_image adds 1 to one of them or changes neither;
\* their sum is at most the number of calls made; downloaded_count is the
\* number of files this process has written in full, skipped calls not
\* counted.
C20_CounterAccounting ==
    /\ [](/\ downloaded_count >= 0
          /\ failed_count >= 0
          /\ downloaded_count + failed_count <= calls
          /\ downloaded_count = Cardinality(CompleteFiles) - previous.downloaded)
    /\ [][phase' # "Idle" => /\ downloaded_count' >= downloaded_count
                             /\ failed_count' >= failed_count]_vars
    /\ [][calls' = calls + 1 =>
            \/ downloaded_count' = downloaded_count /\ failed_count' = failed_count
            \/ downloaded_count' = downloaded_count + 1 /\ failed_count' = failed_count
            \/ downloaded_count' = downloaded_count /\ failed_count' = failed_count + 1]_vars

\* C20's case: files were saved, a call failed and a call was skipped
C20_Witness ==
    /\ downloaded_count > 0
    /\ failed_count > 0
    /\ calls > downloaded_count + failed_count
    /\ last.op = "download_image"
    /\ last.outcome = "skipped"

====
